---- MODULE Spec2Model ----
(***************************************************************************)
(* Verification model of the keyword agent:                                *)
(*   - keyword_agent/tools.py : get_trend_daten_fuer_keywords and helpers  *)
(*   - gradio_app.py          : process_request and the runner glue        *)
(*   - keyword_agent/keyword_agent.py : the sequential agent pipeline      *)
(*                                                                         *)
(* Text is modelled as a sequence of tokens. A token is one whitespace     *)
(* character (" " or "\t") or a run of word characters that is never split *)
(* (a letter such as "a", or a whole word such as "kokain"). Two adjacent  *)
(* word tokens form one longer word, so the regular expression boundary \b *)
(* lies only between a word token and a whitespace token or a string end.  *)
(*                                                                         *)
(* Python values whose type the code looks at are records [typ, wert].     *)
(***************************************************************************)
EXTENDS Integers, Sequences, FiniteSets, TLC

VARIABLES
    \* ---- get_trend_daten_fuer_keywords (tools.py) ----
    keywords,        \* the argument: None or a list of entries
    max_verwandte,   \* the argument max_verwandte
    pc,              \* position in the function
    cleaned,         \* tools.py:94-96
    i,               \* loop variable of the batch loop, tools.py:117
    batch,           \* tools.py:118
    iot,             \* tools.py:123, the provider's answer for the batch
    related,         \* tools.py:127, the provider's answer for the batch
    ergebnisse,      \* tools.py:113, the records appended so far
    ergebnis,        \* the returned dictionary, <<>> while nothing is returned
    ausnahme,        \* the exception that left the function, "" if none
    gefangen,        \* the exception e bound by the outer except, None if none
    abfragen,        \* the batches handed to build_payload, in order
    antworten,       \* the provider's answers [iot, related], one per answered batch
    \* ---- process_request and the agent run (gradio_app.py, keyword_agent.py) ----
    thema,           \* form input
    artikeltext,     \* form input
    alter_min,       \* form input
    alter_max,       \* form input
    app_pc,          \* position in process_request_async / run_keyword_agent_async
    extern,          \* the external calls made so far, in order
    state,           \* the session state: key -> value
    stufe,           \* index of the next stage in the order of the pipeline
    aktiv,           \* the stage that has started and not yet answered
    gelesen,         \* stage -> keys its instruction placeholders read from state
    geschrieben,     \* the writes to the session state: <<stage, key>>, in order
    event,           \* the event yielded by run_async and not yet consumed
    results,         \* gradio_app.py:95
    outputs,         \* the tuple returned by process_request, None before
    app_ausnahme     \* the exception that left process_request, "" if none

toolVars == <<keywords, max_verwandte, pc, cleaned, i, batch, iot, related,
              ergebnisse, ergebnis, ausnahme, gefangen, abfragen, antworten>>

appVars == <<thema, artikeltext, alter_min, alter_max, app_pc, extern, state,
             stufe, aktiv, gelesen, geschrieben, event, results, outputs,
             app_ausnahme>>

vars == <<toolVars, appVars>>

\* ------------------------------------------------------------------------
\* Python values
\* ------------------------------------------------------------------------
PyNone == [typ |-> "NoneType", wert |-> <<>>]
PyStr(s) == [typ |-> "str", wert |-> s]
PyInt(tok) == [typ |-> "int", wert |-> <<tok>>]
PyList(l) == [typ |-> "list", wert |-> l]

\* Python truth value of an entry, as used by (keyword or "")
Truthy(v) ==
    CASE v.typ = "NoneType" -> FALSE
      [] v.typ = "str" -> v.wert # <<>>
      [] v.typ = "int" -> v.wert # <<"0">>
      [] OTHER -> v.wert # <<>>

\* ------------------------------------------------------------------------
\* Text helpers
\* ------------------------------------------------------------------------
IsSpace(t) == t \in {" ", "\t", "\n"}

RECURSIVE LStrip(_)
LStrip(s) ==
    IF s = <<>> THEN <<>>
    ELSE IF IsSpace(Head(s)) THEN LStrip(Tail(s)) ELSE s

RECURSIVE RStrip(_)
RStrip(s) ==
    IF s = <<>> THEN <<>>
    ELSE IF IsSpace(s[Len(s)]) THEN RStrip(SubSeq(s, 1, Len(s) - 1)) ELSE s

\* str.strip()
Strip(s) == RStrip(LStrip(s))

\* re.sub(r"\s+", " ", s)
RECURSIVE CollapseSpace(_)
CollapseSpace(s) ==
    IF s = <<>> THEN <<>>
    ELSE IF IsSpace(Head(s)) THEN <<" ">> \o CollapseSpace(LStrip(s))
    ELSE <<Head(s)>> \o CollapseSpace(Tail(s))

\* _normalisiere_keyword on a string
normalisiere_text(s) == CollapseSpace(Strip(s))

\* _normalisiere_keyword: (keyword or "") first; a truthy value that is no
\* string has no strip() and raises AttributeError
normalisiere_raises(v) == Truthy(v) /\ v.typ # "str"

normalisiere_keyword(v) ==
    IF Truthy(v) THEN normalisiere_text(v.wert) ELSE <<>>

\* a dedupe that keeps the last occurrence instead of the first
RECURSIVE dedupe_keep_last(_)
dedupe_keep_last(items) ==
    IF items = <<>> THEN <<>>
    ELSE IF \E n \in 2..Len(items) : items[n] = Head(items)
         THEN dedupe_keep_last(Tail(items))
         ELSE <<Head(items)>> \o dedupe_keep_last(Tail(items))

\* _dedupe_preserve_order
RECURSIVE dedupe_preserve_order(_)
dedupe_preserve_order(items) ==
    IF items = <<>> THEN <<>>
    ELSE LET vorn == dedupe_preserve_order(SubSeq(items, 1, Len(items) - 1))
             x == items[Len(items)]
         IN IF \E n \in 1..Len(vorn) : vorn[n] = x THEN vorn ELSE Append(vorn, x)

\* str.lower() on a token
LowerTok(t) ==
    CASE t = "Kokain" -> "kokain"
      [] t = "HEROIN" -> "heroin"
      [] t = "A" -> "a"
      [] OTHER -> t

Lower(s) == [n \in 1..Len(s) |-> LowerTok(s[n])]

\* _VERBOTENE_MUSTER: every alternative of the three patterns, each between \b
VERBOTENE_MUSTER ==
    { <<"kokain">>, <<"heroin">>, <<"meth">>, <<"crystal">>,
      <<"drogen", " ", "kaufen">>,
      <<"waffe", " ", "kaufen">>, <<"schusswaffe">>, <<"bombenbau">>,
      <<"kindesmissbrauch">> }

\* re.search(r"\b(alt)\b", k): alt occurs at position p with a word boundary on
\* both sides (every alternative starts and ends with a word token)
MatchAt(k, alt, p) ==
    /\ p + Len(alt) - 1 <= Len(k)
    /\ SubSeq(k, p, p + Len(alt) - 1) = alt
    /\ (p = 1 \/ IsSpace(k[p - 1]))
    /\ (p + Len(alt) - 1 = Len(k) \/ IsSpace(k[p + Len(alt)]))

re_search(alt, k) == \E p \in 1..Len(k) : MatchAt(k, alt, p)

\* brand_safety_ok without the lower()
brand_safety_ok_case_sensitive(keyword) ==
    \A alt \in VERBOTENE_MUSTER : ~re_search(alt, keyword)

brand_safety_ok(keyword) ==
    LET k == Lower(keyword)
    IN \A alt \in VERBOTENE_MUSTER : ~re_search(alt, k)

\* ------------------------------------------------------------------------
\* Optional values: None is <<>>, a value v is <<v>>
\* ------------------------------------------------------------------------
None == <<>>
Some(v) == <<v>>

Min(a, b) == IF a <= b THEN a ELSE b
Max(a, b) == IF a >= b THEN a ELSE b

Range(s) == {s[n] : n \in 1..Len(s)}

\* pandas Series.head(n): the first n rows, for n < 0 all rows but the last -n
head(rows, n) ==
    IF n >= 0 THEN SubSeq(rows, 1, Min(n, Len(rows)))
    ELSE SubSeq(rows, 1, Max(Len(rows) + n, 0))

\* Series.dropna(): the values that are not NaN
dropna(series) == SelectSeq(series, LAMBDA v : v # None)

RECURSIVE SumSeries(_)
SumSeries(series) ==
    IF series = <<>> THEN 0 ELSE series[1][1] + SumSeries(Tail(series))

\* int(sum / n): the mean cut off instead of rounded
round_mean_floor(sum, n) == sum \div n

\* int(round(float(sum / n))): Python rounds a tie to the even neighbour
round_mean(sum, n) ==
    LET q == sum \div n
        r == sum % n
    IN IF 2 * r < n THEN q
       ELSE IF 2 * r > n THEN q + 1
       ELSE IF q % 2 = 0 THEN q ELSE q + 1

\* ------------------------------------------------------------------------
\* get_trend_daten_fuer_keywords: the pieces of the function body
\* ------------------------------------------------------------------------
BATCH_SIZE == 5
DEFAULT_MAX_VERWANDTE == 5

\* tools.py:94-96
Bereinigt(liste) ==
    LET norm == [n \in 1..Len(liste) |-> normalisiere_keyword(liste[n])]
        ok == SelectSeq(norm, LAMBDA k : k # <<>> /\ brand_safety_ok(k))
    IN dedupe_preserve_order(ok)

\* tools.py:130-138
TrendIndex(frame, kw) ==
    IF frame.kaputt THEN None
    ELSE IF kw \in DOMAIN frame.spalten
         THEN LET series == dropna(frame.spalten[kw])
              IN IF Len(series) > 0
                 THEN Some(round_mean(SumSeries(series), Len(series)))
                 ELSE None
         ELSE None

\* tools.py:153-155
BereinigeVerwandte(roh) ==
    LET strs == SelectSeq(roh, LAMBDA x : x.typ = "str")
        norm == [n \in 1..Len(strs) |-> normalisiere_text(strs[n].wert)]
        ok == SelectSeq(norm, LAMBDA x : x # <<>> /\ brand_safety_ok(x))
    IN dedupe_preserve_order(ok)

\* WaehleVerwandte with needed = max_verwandte
WaehleVerwandte_needed_max(rising_df, top_df, maxv) ==
    LET v1 == IF rising_df # None /\ rising_df[1] # <<>>
              THEN head(rising_df[1], maxv) ELSE <<>>
    IN IF top_df # None /\ top_df[1] # <<>> /\ Len(v1) < maxv
       THEN v1 \o head(top_df[1], maxv)
       ELSE v1

\* WaehleVerwandte that takes top first and fills up from rising
WaehleVerwandte_top_first(rising_df, top_df, maxv) ==
    LET v1 == IF top_df # None /\ top_df[1] # <<>>
              THEN head(top_df[1], maxv) ELSE <<>>
    IN IF rising_df # None /\ rising_df[1] # <<>> /\ Len(v1) < maxv
       THEN v1 \o head(rising_df[1], maxv - Len(v1))
       ELSE v1

\* tools.py:147-151
WaehleVerwandte(rising_df, top_df, maxv) ==
    LET v1 == IF rising_df # None /\ rising_df[1] # <<>>
              THEN head(rising_df[1], maxv) ELSE <<>>
    IN IF top_df # None /\ top_df[1] # <<>> /\ Len(v1) < maxv
       THEN v1 \o head(top_df[1], maxv - Len(v1))
       ELSE v1

\* tools.py:140-157
Verwandte(rel, kw, maxv) ==
    IF rel.kaputt THEN <<>>
    ELSE LET rq == IF kw \in DOMAIN rel.eintraege
                   THEN rel.eintraege[kw]
                   ELSE [top |-> None, rising |-> None]
         IN BereinigeVerwandte(WaehleVerwandte(rq.rising, rq.top, maxv))

\* tools.py:159-166
Eintrag(kw, frame, rel, maxv) ==
    [keyword |-> kw,
     trend_index |-> TrendIndex(frame, kw),
     suchvolumen |-> None,
     verwandte_suchanfragen |-> Verwandte(rel, kw, maxv)]

\* tools.py:99-103
KeineKeywords ==
    [trends_verfuegbar |-> FALSE,
     ergebnisse |-> <<>>,
     hinweis |-> <<"Keine gueltigen Keywords fuer Trends-Abfrage vorhanden.">>]

\* tools.py:168-172
Erfolg(erg) ==
    [trends_verfuegbar |-> TRUE,
     ergebnisse |-> erg,
     hinweis |-> <<"trend_index ist ein Proxy (0-100) aus Google Trends">>]

\* a fallback that keeps the records of the batches that succeeded
Fallback_keeps_partial(cl, erg, e) ==
    [trends_verfuegbar |-> FALSE,
     ergebnisse |-> [n \in 1..Len(cl) |->
                      IF n <= Len(erg) THEN erg[n]
                      ELSE [keyword |-> cl[n],
                            trend_index |-> None,
                            suchvolumen |-> None,
                            verwandte_suchanfragen |-> <<>>]],
     hinweis |-> <<"Trends-Abfrage nicht verfuegbar (pytrends Fehler): ", e>>]

\* tools.py:174-188
Fallback(cl, erg, e) ==
    [trends_verfuegbar |-> FALSE,
     ergebnisse |-> [n \in 1..Len(cl) |->
                      [keyword |-> cl[n],
                       trend_index |-> None,
                       suchvolumen |-> None,
                       verwandte_suchanfragen |-> <<>>]],
     hinweis |-> <<"Trends-Abfrage nicht verfuegbar (pytrends Fehler): ", e>>]

\* ------------------------------------------------------------------------
\* Inputs of the tool
\* ------------------------------------------------------------------------
MaxKeywords == 2     \* freely chosen entries of the keywords list
MaxFuell == 5        \* plain distinct keywords in front of them (none or all)

\* the n-th plain keyword: "c", "cc", "ccc", ...
Fuellwort(n) == PyStr([k \in 1..n |-> "c"])
Fuellung(n) == [k \in 1..n |-> Fuellwort(k)]

\* the entries a caller may pass
Eintraege ==
    { PyStr(<<"a", " ", "b">>),
      PyStr(<<" ", "a", " ", "\t", "b", " ">>),   \* "a b" after normalisation
      PyStr(<<" ">>),
      PyStr(<<>>),
      PyNone,
      PyStr(<<"Kokain">>),
      PyStr(<<"a", " ", "kokain">>),
      PyStr(<<"kokain", "a">>),                  \* one word, no \b after kokain
      PyStr(<<"c">>),                            \* repeats the first plain keyword
      PyInt("42") }

Listen(S, n) == UNION {[1..m -> S] : m \in 0..n}

KeywordArgumente ==
    {PyNone} \cup
    {PyList(Fuellung(n) \o frei) :
        n \in {0, MaxFuell}, frei \in Listen(Eintraege, MaxKeywords)}

\* what (keywords or []) iterates over
KeywordListe(arg) == IF arg.typ = "list" THEN arg.wert ELSE <<>>

\* ------------------------------------------------------------------------
\* The provider (pytrends): its answers for one batch
\* ------------------------------------------------------------------------
\* interest_over_time(): a frame with one column per keyword of the batch, a
\* frame without keyword columns, or an object whose columns cannot be read
IotAntwort(a, b) ==
    CASE a.art = "kaputt" -> [kaputt |-> TRUE, spalten |-> <<>>]
      [] a.art = "leer" -> [kaputt |-> FALSE, spalten |-> <<>>]
      [] OTHER -> [kaputt |-> FALSE,
                   spalten |-> [kw \in Range(b) |-> a.serie]]

\* related_queries(): {keyword: {"top": df, "rising": df}} for the keywords of
\* the batch, an empty dict, or an object without get()
RelatedAntwort(a, b) ==
    CASE a.art = "kaputt" -> [kaputt |-> TRUE, eintraege |-> <<>>]
      [] a.art = "leer" -> [kaputt |-> FALSE, eintraege |-> <<>>]
      [] OTHER -> [kaputt |-> FALSE,
                   eintraege |-> [kw \in Range(b) |->
                                    [top |-> a.top, rising |-> a.rising]]]

IotKaputt == [art |-> "kaputt", serie |-> <<>>]
IotLeer == [art |-> "leer", serie |-> <<>>]
IotSerie(s) == [art |-> "frame", serie |-> s]
RelatedKaputt == [art |-> "kaputt", top |-> None, rising |-> None]
RelatedLeer == [art |-> "leer", top |-> None, rising |-> None]
RelatedDict(t, r) == [art |-> "dict", top |-> t, rising |-> r]

KeinFrame == [kaputt |-> FALSE, spalten |-> <<>>]
KeinRelated == [kaputt |-> FALSE, eintraege |-> <<>>]

InitTool(argumente, maxvs) ==
    /\ keywords \in argumente
    /\ max_verwandte \in maxvs
    /\ pc = "call"
    /\ cleaned = <<>>
    /\ i = 0
    /\ batch = <<>>
    /\ iot = KeinFrame
    /\ related = KeinRelated
    /\ ergebnisse = <<>>
    /\ ergebnis = None
    /\ ausnahme = ""
    /\ gefangen = None
    /\ abfragen = <<>>
    /\ antworten = <<>>

\* tools.py:174-188: the except branch of the outer try
Ausnahmebehandlung(e) ==
    /\ gefangen' = Some(e)
    /\ ergebnis' = Some(Fallback(cleaned, ergebnisse, e))
    /\ pc' = "done"

\* tools.py:93-103: cleaning, before the try
Aufruf ==
    /\ pc = "call"
    /\ LET liste == KeywordListe(keywords)
       IN IF \E n \in 1..Len(liste) : normalisiere_raises(liste[n])
          THEN /\ pc' = "raised"
               /\ ausnahme' = "AttributeError"
               /\ UNCHANGED <<cleaned, ergebnis>>
          ELSE /\ cleaned' = Bereinigt(liste)
               /\ ausnahme' = ""
               /\ IF cleaned' = <<>>
                  THEN /\ ergebnis' = Some(KeineKeywords)
                       /\ pc' = "done"
                  ELSE /\ ergebnis' = None
                       /\ pc' = "import"
    /\ UNCHANGED <<keywords, max_verwandte, i, batch, iot, related, ergebnisse,
                   gefangen, abfragen, antworten>>
    /\ UNCHANGED appVars

\* tools.py:108-113: the imports and TrendReq(...) succeed
Import ==
    /\ pc = "import"
    /\ pc' = "build"
    /\ ergebnisse' = <<>>
    /\ i' = 0
    /\ UNCHANGED <<keywords, max_verwandte, cleaned, batch, iot, related,
                   ergebnis, ausnahme, gefangen, abfragen, antworten>>
    /\ UNCHANGED appVars

\* tools.py:108-111: pytrends or pandas is not installed, or TrendReq throws
ImportFehler ==
    /\ pc = "import"
    /\ Ausnahmebehandlung("No module named 'pytrends'")
    /\ UNCHANGED <<keywords, max_verwandte, cleaned, i, batch, iot, related,
                   ergebnisse, ausnahme, abfragen, antworten>>
    /\ UNCHANGED appVars

\* a batch loop whose slice is one keyword too long
BuildPayload_overlap ==
    /\ pc = "build"
    /\ batch' = SubSeq(cleaned, i + 1, Min(i + BATCH_SIZE + 1, Len(cleaned)))
    /\ abfragen' = Append(abfragen, batch')
    /\ \/ /\ pc' = "iot"
          /\ UNCHANGED <<ergebnis, gefangen>>
       \/ Ausnahmebehandlung("build_payload")
    /\ UNCHANGED <<keywords, max_verwandte, cleaned, i, iot, related,
                   ergebnisse, ausnahme, antworten>>
    /\ UNCHANGED appVars

\* tools.py:118-119
BuildPayload ==
    /\ pc = "build"
    /\ batch' = SubSeq(cleaned, i + 1, Min(i + BATCH_SIZE, Len(cleaned)))
    /\ abfragen' = Append(abfragen, batch')
    /\ \/ /\ pc' = "iot"
          /\ UNCHANGED <<ergebnis, gefangen>>
       \/ Ausnahmebehandlung("build_payload")
    /\ UNCHANGED <<keywords, max_verwandte, cleaned, i, iot, related,
                   ergebnisse, ausnahme, antworten>>
    /\ UNCHANGED appVars

\* tools.py:123
InterestOverTime(arten) ==
    /\ pc = "iot"
    /\ \/ /\ \E a \in arten : iot' = IotAntwort(a, batch)
          /\ pc' = "related"
          /\ UNCHANGED <<ergebnis, gefangen>>
       \/ /\ Ausnahmebehandlung("interest_over_time")
          /\ UNCHANGED iot
    /\ UNCHANGED <<keywords, max_verwandte, cleaned, i, batch, related,
                   ergebnisse, ausnahme, abfragen, antworten>>
    /\ UNCHANGED appVars

\* tools.py:127
RelatedQueries(arten) ==
    /\ pc = "related"
    /\ \/ /\ \E a \in arten : related' = RelatedAntwort(a, batch)
          /\ antworten' = Append(antworten, [iot |-> iot, related |-> related'])
          /\ pc' = "kw"
          /\ UNCHANGED <<ergebnis, gefangen>>
       \/ /\ Ausnahmebehandlung("related_queries")
          /\ UNCHANGED <<related, antworten>>
    /\ UNCHANGED <<keywords, max_verwandte, cleaned, i, batch, iot,
                   ergebnisse, ausnahme, abfragen>>
    /\ UNCHANGED appVars

\* tools.py:129-172: the records of the batch, then the next batch or return
VerarbeiteBatch ==
    /\ pc = "kw"
    /\ ergebnisse' = ergebnisse \o
          [n \in 1..Len(batch) |-> Eintrag(batch[n], iot, related, max_verwandte)]
    /\ IF i + BATCH_SIZE < Len(cleaned)
       THEN /\ i' = i + BATCH_SIZE
            /\ pc' = "build"
            /\ UNCHANGED ergebnis
       ELSE /\ ergebnis' = Some(Erfolg(ergebnisse'))
            /\ pc' = "done"
            /\ UNCHANGED i
    /\ UNCHANGED <<keywords, max_verwandte, cleaned, batch, iot, related,
                   ausnahme, gefangen, abfragen, antworten>>
    /\ UNCHANGED appVars

NextTool(iotArten, relArten) ==
    \/ Aufruf
    \/ Import
    \/ ImportFehler
    \/ BuildPayload
    \/ InterestOverTime(iotArten)
    \/ RelatedQueries(relArten)
    \/ VerarbeiteBatch

\* ------------------------------------------------------------------------
\* keyword_agent.py: the agents of the pipeline
\* ------------------------------------------------------------------------
\* the state keys named by the {placeholders} of an agent's instruction
Platzhalter(agent) ==
    CASE agent = "eingabe_pruefung_agent" ->
            {"thema", "artikeltext", "alter_min", "alter_max"}
      [] agent = "keyword_generierung_agent" -> {"validierte_eingabe"}
      [] agent = "trend_anreicherung_agent" -> {"keyword_kandidaten"}
      [] agent = "seo_bewertung_agent" -> {"validierte_eingabe", "trend_daten"}
      [] agent = "visualisierungs_agent" -> {"seo_ergebnis"}
      [] agent = "zusammenfassung_agent" -> {"seo_ergebnis"}

output_key(agent) ==
    CASE agent = "eingabe_pruefung_agent" -> "validierte_eingabe"
      [] agent = "keyword_generierung_agent" -> "keyword_kandidaten"
      [] agent = "trend_anreicherung_agent" -> "trend_daten"
      [] agent = "seo_bewertung_agent" -> "seo_ergebnis"
      [] agent = "visualisierungs_agent" -> "diagramm_code"
      [] agent = "zusammenfassung_agent" -> "zusammenfassung"

\* the agents that are given tools
HatTools(agent) == agent = "trend_anreicherung_agent"

insight_pipeline == <<"visualisierungs_agent", "zusammenfassung_agent">>

root_agent ==
    <<"eingabe_pruefung_agent", "keyword_generierung_agent",
      "trend_anreicherung_agent", "seo_bewertung_agent", "insight_pipeline">>

\* a sequence that leaves out the agents of a nested SequentialAgent
RECURSIVE Ablauf_ohne_nested(_)
Ablauf_ohne_nested(agents) ==
    IF agents = <<>> THEN <<>>
    ELSE (IF Head(agents) = "insight_pipeline"
          THEN <<>>
          ELSE <<Head(agents)>>) \o Ablauf_ohne_nested(Tail(agents))

\* SequentialAgent: the sub-agents run one after the other, a nested
\* SequentialAgent runs its own sub-agents in its place
RECURSIVE Ablauf(_)
Ablauf(agents) ==
    IF agents = <<>> THEN <<>>
    ELSE (IF Head(agents) = "insight_pipeline"
          THEN Ablauf(insight_pipeline)
          ELSE <<Head(agents)>>) \o Ablauf(Tail(agents))

Stufen == Ablauf(root_agent)

\* the LlmAgent objects the module defines
LlmAgenten ==
    {"eingabe_pruefung_agent", "keyword_generierung_agent",
     "trend_anreicherung_agent", "seo_bewertung_agent",
     "visualisierungs_agent", "zusammenfassung_agent"}

\* ------------------------------------------------------------------------
\* Values of the session state: the final text of an agent
\* ------------------------------------------------------------------------
MaxTop == 11         \* longest top_keywords list an agent writes
MaxAlter == 1        \* largest age of the form

KeinTop == [typ |-> "fehlt", spalten |-> <<>>, zeilen |-> <<>>]
TopListe(sp, n) == [typ |-> "list", spalten |-> sp, zeilen |-> [k \in 1..n |-> k]]
TopText == [typ |-> "str", spalten |-> <<>>, zeilen |-> <<>>]

\* art: "objekt" a JSON object, "liste" a non-empty JSON list, "leere_liste"
\* the JSON text [], "text" no JSON at all, "None" the parsed value None
Basis ==
    [art |-> "text", gueltig |-> "fehlt", fehlermeldung |-> "",
     top |-> KeinTop, trends |-> "fehlt", texte |-> FALSE, code |-> <<>>]

Validierung(g, f) ==
    [Basis EXCEPT !.art = "objekt", !.gueltig = g, !.fehlermeldung = f]
SeoErgebnis(t, tr, tx) ==
    [Basis EXCEPT !.art = "objekt", !.top = t, !.trends = tr, !.texte = tx]
Code(c) == [Basis EXCEPT !.code = c]

\* a Markdown code fence (three backticks), written ~~~ here
ChartCode == "chart = alt.Chart(df)"
Fence == "~~~"
FencePython == "~~~python"

\* what the model may answer, per agent
Antworten(agent) ==
    CASE agent = "eingabe_pruefung_agent" ->
            { Validierung("true", ""), Validierung("false", "Thema fehlt"),
              Validierung("false", ""), Basis }
      [] agent = "keyword_generierung_agent" -> { [Basis EXCEPT !.art = "objekt"] }
      [] agent = "trend_anreicherung_agent" -> { [Basis EXCEPT !.art = "objekt"] }
      [] agent = "seo_bewertung_agent" ->
            { SeoErgebnis(TopListe(<<"keyword", "gesamt_score">>, n), "true", TRUE) :
                n \in 0..MaxTop } \cup
            { SeoErgebnis(TopListe(<<"rang", "gesamt_score", "keyword">>, 1),
                          "false", FALSE),
              SeoErgebnis(TopText, "fehlt", TRUE),
              SeoErgebnis(KeinTop, "false", FALSE),
              [Basis EXCEPT !.art = "liste"],
              [Basis EXCEPT !.art = "leere_liste"],
              Basis }
      [] agent = "visualisierungs_agent" ->
            { Code(<<ChartCode>>),
              Code(<<FencePython, "\n", ChartCode, "\n", Fence, "\n">>),
              Code(<<Fence, "\n", "raise", "\n", ChartCode, "\n", Fence>>),
              Code(<<"Hier ist der Code:", "\n", FencePython, "\n", ChartCode,
                     "\n", Fence>>),
              Code(<<"x = 1">>),
              Code(<<" ">>) }
      [] agent = "zusammenfassung_agent" ->
            { Code(<<>>), Code(<<"Zusammenfassung">>) }

\* dict.get(key): None when the key is absent
Get(d, key) == IF key \in DOMAIN d THEN Some(d[key]) ELSE None

\* ------------------------------------------------------------------------
\* gradio_app.py: helpers
\* ------------------------------------------------------------------------
GeparstNone == [Basis EXCEPT !.art = "None"]
LeeresObjekt == [Basis EXCEPT !.art = "objekt"]

\* _safe_json_load on the value results.get(key): None stays None, a string
\* goes through json.loads, which fails on text that is no JSON
safe_json_load(value) ==
    IF value = None THEN GeparstNone
    ELSE IF value[1].art = "text" THEN GeparstNone
    ELSE value[1]

\* x or {}
OderLeeresObjekt(x) ==
    IF x.art \in {"None", "leere_liste"} THEN LeeresObjekt ELSE x

\* _clean_code
clean_code(code_str) ==
    LET gestrippt == Strip(code_str)
    IN IF gestrippt # <<>> /\ gestrippt[1] = FencePython
       THEN Strip(SelectSeq(gestrippt, LAMBDA t : t \notin {FencePython, Fence}))
       ELSE IF gestrippt # <<>> /\ gestrippt[1] = Fence
       THEN Strip(SelectSeq(gestrippt, LAMBDA t : t # Fence))
       ELSE gestrippt

LeererFrame == [spalten |-> <<>>, zeilen |-> <<>>]

preferred ==
    <<"keyword", "gesamt_score", "trend_index", "suchvolumen", "suchintention",
      "auswahl_begruendung">>

\* _build_df_top
build_df_top(seo_ergebnis) ==
    LET top == IF seo_ergebnis.art = "objekt" /\ seo_ergebnis.top.typ # "fehlt"
               THEN seo_ergebnis.top
               ELSE TopListe(<<>>, 0)
    IN IF top.typ # "list" \/ top.zeilen = <<>>
       THEN LeererFrame
       ELSE [spalten |->
                SelectSeq(preferred, LAMBDA c : c \in Range(top.spalten)) \o
                SelectSeq(top.spalten, LAMBDA c : c \notin Range(preferred)),
             zeilen |-> top.zeilen]

\* _make_error_outputs
make_error_outputs(msg) ==
    [status |-> <<"*", msg, "*">>,
     df |-> LeererFrame,
     chart |-> None,
     seo_titel |-> "", meta |-> "", hook |-> "", vorspann |-> "",
     zusammenfassung |-> <<"*", msg, "*">>]

\* the form check without alter_min > alter_max
FormFehler_ohne_min_max(th, amin, amax) ==
    IF Strip(th) = <<>> THEN "Bitte ein Thema eingeben."
    ELSE IF amin = None \/ amax = None
    THEN "Alterswerte muessen ganze Zahlen sein."
    ELSE IF amin[1] < 0 \/ amax[1] < 0
    THEN "Bitte einen gueltigen Altersbereich angeben (min <= max, beide >= 0)."
    ELSE ""

\* gradio_app.py:104-114: the message of the rejected form, "" when accepted;
\* int(None) of an empty number field raises and is caught
FormFehler(th, amin, amax) ==
    IF Strip(th) = <<>> THEN "Bitte ein Thema eingeben."
    ELSE IF amin = None \/ amax = None
    THEN "Alterswerte muessen ganze Zahlen sein."
    ELSE IF amin[1] < 0 \/ amax[1] < 0 \/ amin[1] > amax[1]
    THEN "Bitte einen gueltigen Altersbereich angeben (min <= max, beide >= 0)."
    ELSE ""

\* exec(diagramm_code, namespace) and namespace.get("chart"), inside the try:
\* text that is no Python, or a statement that raises, leaves chart = None
exec_chart(code) ==
    IF \E n \in 1..Len(code) : code[n] \in {Fence, FencePython, "Hier ist der Code:", "raise"}
    THEN None
    ELSE IF \E n \in 1..Len(code) : code[n] = ChartCode
    THEN Some("chart")
    ELSE None

\* gradio_app.py:118-147 on the results of a finished run; raises is TRUE when
\* seo_ergebnis.get is called on a list
AuswertungRaises(res) ==
    LET ve == safe_json_load(Get(res, "validierte_eingabe"))
        seo == OderLeeresObjekt(safe_json_load(Get(res, "seo_ergebnis")))
    IN /\ ~(ve.art = "objekt" /\ ve.gueltig = "false")
       /\ seo.art # "objekt"

Auswertung(res) ==
    LET ve == safe_json_load(Get(res, "validierte_eingabe"))
        seo == OderLeeresObjekt(safe_json_load(Get(res, "seo_ergebnis")))
        df_top == build_df_top(seo)
        zus == IF Get(res, "zusammenfassung") = None
               THEN <<>> ELSE res["zusammenfassung"].code
        roh == IF Get(res, "diagramm_code") = None
               THEN <<>> ELSE res["diagramm_code"].code
        diagramm_code == clean_code(roh)
    IN IF ve.art = "objekt" /\ ve.gueltig = "false"
       THEN make_error_outputs(IF ve.fehlermeldung # ""
                               THEN ve.fehlermeldung ELSE "Eingabe ungueltig.")
       ELSE [status |-> IF seo.trends # "false"
                        THEN <<"*Fertig.*">>
                        ELSE <<"*Fertig (Trenddaten nicht verfuegbar).*">>,
             df |-> df_top,
             chart |-> IF diagramm_code # <<>> /\ df_top.zeilen # <<>>
                       THEN exec_chart(diagramm_code) ELSE None,
             seo_titel |-> IF seo.texte THEN "seo_titel" ELSE "",
             meta |-> IF seo.texte THEN "meta_beschreibung" ELSE "",
             hook |-> IF seo.texte THEN "hook_ueberschrift" ELSE "",
             vorspann |-> IF seo.texte THEN "vorspann" ELSE "",
             zusammenfassung |-> IF zus # <<>> THEN zus
                                 ELSE <<"*Keine Zusammenfassung verfuegbar.*">>]

\* ------------------------------------------------------------------------
\* gradio_app.py: process_request, run_keyword_agent_async and the agent run
\* ------------------------------------------------------------------------
Themen == { <<>>, <<" ">>, <<"t">>, <<" ", "t", " ">> }
Artikeltexte == { None, Some(<<"text">>) }
Alter == {None} \cup {Some(n) : n \in (0 - 1)..MaxAlter}

ToolRuht ==
    /\ keywords = PyNone
    /\ max_verwandte = DEFAULT_MAX_VERWANDTE
    /\ pc = "idle"
    /\ cleaned = <<>>
    /\ i = 0
    /\ batch = <<>>
    /\ iot = KeinFrame
    /\ related = KeinRelated
    /\ ergebnisse = <<>>
    /\ ergebnis = None
    /\ ausnahme = ""
    /\ gefangen = None
    /\ abfragen = <<>>
    /\ antworten = <<>>

InitApp ==
    /\ ToolRuht
    /\ thema \in Themen
    /\ artikeltext \in Artikeltexte
    /\ alter_min \in Alter
    /\ alter_max \in Alter
    /\ app_pc = "request"
    /\ extern = <<>>
    /\ state = <<>>
    /\ stufe = 1
    /\ aktiv = None
    /\ gelesen = [a \in LlmAgenten |-> {}]
    /\ geschrieben = <<>>
    /\ event = None
    /\ results = <<>>
    /\ outputs = None
    /\ app_ausnahme = ""

\* no request is in progress
AppRuht ==
    /\ thema = <<>>
    /\ artikeltext = None
    /\ alter_min = None
    /\ alter_max = None
    /\ app_pc = "idle"
    /\ extern = <<>>
    /\ state = <<>>
    /\ stufe = 1
    /\ aktiv = None
    /\ gelesen = [a \in LlmAgenten |-> {}]
    /\ geschrieben = <<>>
    /\ event = None
    /\ results = <<>>
    /\ outputs = None
    /\ app_ausnahme = ""

\* gradio_app.py:103-116: the checks of the form, up to the call of
\* run_keyword_agent_async
Anfrage ==
    /\ app_pc = "request"
    /\ LET f == FormFehler(thema, alter_min, alter_max)
       IN IF f # ""
          THEN /\ outputs' = Some(make_error_outputs(f))
               /\ app_pc' = "returned"
          ELSE /\ outputs' = None
               /\ app_pc' = "create_session"
    /\ UNCHANGED <<thema, artikeltext, alter_min, alter_max, extern, state,
                   stufe, aktiv, gelesen, geschrieben, event, results,
                   app_ausnahme>>
    /\ UNCHANGED toolVars

\* gradio_app.py:75-78: create_session(user_id, app_name), without a state
CreateSession ==
    /\ app_pc = "create_session"
    /\ extern' = Append(extern, "create_session")
    /\ \/ /\ state' = <<>>
          /\ app_pc' = "run_async"
          /\ UNCHANGED app_ausnahme
       \/ /\ app_pc' = "raised"
          /\ app_ausnahme' = "create_session"
          /\ UNCHANGED state
    /\ UNCHANGED <<thema, artikeltext, alter_min, alter_max, stufe, aktiv,
                   gelesen, geschrieben, event, results, outputs>>
    /\ UNCHANGED toolVars

\* gradio_app.py:80-95: the form values go into the text of the user message
RunAsync ==
    /\ app_pc = "run_async"
    /\ extern' = Append(extern, "run_async")
    /\ stufe' = 1
    /\ results' = <<>>
    /\ app_pc' = "events"
    /\ UNCHANGED <<thema, artikeltext, alter_min, alter_max, state, aktiv,
                   gelesen, geschrieben, event, outputs, app_ausnahme>>
    /\ UNCHANGED toolVars

\* the next agent of the sequence starts: its instruction is filled from the
\* session state and the model is called
StageStart ==
    /\ app_pc = "events"
    /\ event = None
    /\ aktiv = None
    /\ stufe <= Len(Stufen)
    /\ aktiv' = Some(Stufen[stufe])
    /\ gelesen' = [gelesen EXCEPT ![Stufen[stufe]] = Platzhalter(Stufen[stufe])]
    /\ extern' = Append(extern, Stufen[stufe])
    /\ UNCHANGED <<thema, artikeltext, alter_min, alter_max, app_pc, state,
                   stufe, geschrieben, event, results, outputs, app_ausnahme>>
    /\ UNCHANGED toolVars

\* an agent with tools yields events that carry no state_delta
ToolEvent ==
    /\ app_pc = "events"
    /\ event = None
    /\ aktiv # None
    /\ HatTools(aktiv[1])
    /\ event' = Some([author |-> aktiv[1], state_delta |-> <<>>])
    /\ UNCHANGED <<thema, artikeltext, alter_min, alter_max, app_pc, extern,
                   state, stufe, aktiv, gelesen, geschrieben, results, outputs,
                   app_ausnahme>>
    /\ UNCHANGED toolVars

\* the agent answers: its text is stored under output_key and yielded as the
\* state_delta of an event
StageEnd ==
    /\ app_pc = "events"
    /\ event = None
    /\ aktiv # None
    /\ \E w \in Antworten(aktiv[1]) :
          /\ state' = (output_key(aktiv[1]) :> w) @@ state
          /\ event' = Some([author |-> aktiv[1],
                            state_delta |-> (output_key(aktiv[1]) :> w)])
    /\ geschrieben' = Append(geschrieben, <<aktiv[1], output_key(aktiv[1])>>)
    /\ aktiv' = None
    /\ stufe' = stufe + 1
    /\ UNCHANGED <<thema, artikeltext, alter_min, alter_max, app_pc, extern,
                   gelesen, results, outputs, app_ausnahme>>
    /\ UNCHANGED toolVars

\* the agent fails (the placeholders cannot be filled, the model or a tool
\* call fails): the exception leaves run_async, run_keyword_agent_async and
\* process_request, none of which catches it
StageFails ==
    /\ app_pc = "events"
    /\ event = None
    /\ aktiv # None
    /\ app_pc' = "raised"
    /\ app_ausnahme' = aktiv[1]
    /\ UNCHANGED <<thema, artikeltext, alter_min, alter_max, extern, state,
                   stufe, aktiv, gelesen, geschrieben, event, results, outputs>>
    /\ UNCHANGED toolVars

\* gradio_app.py:96-98
EventVerarbeiten ==
    /\ app_pc = "events"
    /\ event # None
    /\ results' = IF DOMAIN event[1].state_delta # {}
                  THEN event[1].state_delta @@ results
                  ELSE results
    /\ event' = None
    /\ UNCHANGED <<thema, artikeltext, alter_min, alter_max, app_pc, extern,
                   state, stufe, aktiv, gelesen, geschrieben, outputs,
                   app_ausnahme>>
    /\ UNCHANGED toolVars

\* gradio_app.py:100, 118-151: the run is over, the outputs are built
Rueckgabe ==
    /\ app_pc = "events"
    /\ event = None
    /\ aktiv = None
    /\ stufe > Len(Stufen)
    /\ IF AuswertungRaises(results)
       THEN /\ app_pc' = "raised"
            /\ app_ausnahme' = "AttributeError"
            /\ UNCHANGED outputs
       ELSE /\ app_pc' = "returned"
            /\ outputs' = Some(Auswertung(results))
            /\ UNCHANGED app_ausnahme
    /\ UNCHANGED <<thema, artikeltext, alter_min, alter_max, extern, state,
                   stufe, aktiv, gelesen, geschrieben, event, results>>
    /\ UNCHANGED toolVars

NextApp ==
    \/ Anfrage
    \/ CreateSession
    \/ RunAsync
    \/ StageStart
    \/ ToolEvent
    \/ StageEnd
    \/ StageFails
    \/ EventVerarbeiten
    \/ Rueckgabe

SpecApp == InitApp /\ [][NextApp]_vars

\* ---- the domains of the cleaning and batching checks ----
Serie3 == <<None, Some(3)>>
IotArten == {IotLeer, IotSerie(Serie3)}

DfX == Some(<<PyStr(<<"x">>), PyStr(<<" ", "x">>), PyStr(<<"HEROIN">>),
             PyInt("42")>>)
DfY == Some(<<PyStr(<<"y">>), PyStr(<<"x">>), PyStr(<<" ">>)>>)
RelatedArten == {RelatedLeer, RelatedDict(DfY, DfX)}

Init == InitTool(KeywordArgumente, {DEFAULT_MAX_VERWANDTE}) /\ AppRuht
Next == NextTool(IotArten, RelatedArten)
Spec == Init /\ [][Next]_vars

\* ---- the domains of the related-queries checks ----
MaxVerwandte == 2    \* largest max_verwandte argument
MaxNegativ == 1      \* smallest max_verwandte argument is -MaxNegativ
MaxRelated == 3      \* rows of a related-queries frame

RisingVokabular == {PyStr(<<"x">>), PyStr(<<"y">>), PyStr(<<"x", " ">>)}
TopVokabular == {PyStr(<<"y">>), PyStr(<<"z">>)}
Frames(S) == {None} \cup {Some(l) : l \in Listen(S, MaxRelated)}
RelatedArtenVoll ==
    {RelatedDict(t, r) : t \in Frames(TopVokabular), r \in Frames(RisingVokabular)}
KeywordArgumenteKurz ==
    {PyList(<<PyStr(<<"a">>)>>), PyList(<<PyStr(<<"a">>), PyStr(<<"b">>)>>)}

InitVerwandte ==
    InitTool(KeywordArgumenteKurz, (0 - MaxNegativ)..MaxVerwandte) /\ AppRuht
\* besides the frames, the answers whose columns or get() cannot be used
NextVerwandte ==
    NextTool({IotLeer, IotKaputt}, RelatedArtenVoll \cup {RelatedLeer, RelatedKaputt})
SpecVerwandte == InitVerwandte /\ [][NextVerwandte]_vars

\* ---- the domains of the trend-index checks ----
MaxSerie == 3        \* rows of an interest_over_time frame

\* the values of a column: NaN, the ends and the middle of 0..100 and a value
\* outside of it
Werte == {None, Some(0), Some(1), Some(2), Some(100), Some(102)}
Serien == Listen(Werte, MaxSerie)
IotArtenVoll == {IotLeer, IotKaputt} \cup {IotSerie(r) : r \in Serien}

InitTrend ==
    InitTool(KeywordArgumenteKurz, {DEFAULT_MAX_VERWANDTE}) /\ AppRuht
NextTrend == NextTool(IotArtenVoll, {RelatedLeer})
SpecTrend == InitTrend /\ [][NextTrend]_vars

\* ------------------------------------------------------------------------
\* Properties of get_trend_daten_fuer_keywords
\* ------------------------------------------------------------------------
Returned == pc = "done"
Ergebnis == ergebnis[1]
Keywords(erg) == [n \in 1..Len(erg) |-> erg[n].keyword]

\* a text matches the denylist
Verboten(text) == \E alt \in VERBOTENE_MUSTER : re_search(alt, Lower(text))
\* a text is empty after trimming
LeerNachTrim(text) == \A n \in 1..Len(text) : IsSpace(text[n])

\* the string entries of the keywords argument
StrEintraege ==
    LET liste == KeywordListe(keywords)
    IN {liste[n].wert : n \in {m \in 1..Len(liste) : liste[m].typ = "str"}}

\* C1: get_trend_daten_fuer_keywords never raises an exception to its caller;
\* whenever it returns, the result has the keys trends_verfuegbar, ergebnisse
\* and hinweis.
C1_NeverRaises ==
    /\ pc # "raised"
    /\ ausnahme = ""
    /\ Returned =>
         /\ ergebnis # None
         /\ DOMAIN Ergebnis = {"trends_verfuegbar", "ergebnisse", "hinweis"}

\* C2: if a provider call (or the import) throws in any batch, the result has
\* trends_verfuegbar = FALSE and holds every distinct keyword that survived
\* cleaning exactly once, each with trend_index None, suchvolumen None and no
\* related query; no record of an earlier batch is kept.
UeberlebendeKeywords ==
    {normalisiere_text(t) : t \in {u \in StrEintraege :
        ~LeerNachTrim(u) /\ ~Verboten(normalisiere_text(u))}}

C2_FallbackComplete ==
    gefangen # None =>
        /\ Returned
        /\ Ergebnis.trends_verfuegbar = FALSE
        /\ LET erwartet == UeberlebendeKeywords
               erg == Ergebnis.ergebnisse
           IN /\ \A k \in erwartet :
                    Cardinality({n \in 1..Len(erg) : erg[n].keyword = k}) = 1
              /\ \A n \in 1..Len(erg) :
                    /\ erg[n].keyword \in erwartet
                    /\ erg[n].trend_index = None
                    /\ erg[n].suchvolumen = None
                    /\ erg[n].verwandte_suchanfragen = <<>>

\* a throw in the second batch, after the first batch produced records with a
\* trend index and related queries
C2_Witness ==
    /\ Returned
    /\ gefangen # None
    /\ Len(abfragen) = 2
    /\ \E n \in 1..Len(ergebnisse) :
          /\ ergebnisse[n].trend_index # None
          /\ ergebnisse[n].verwandte_suchanfragen # <<>>

\* C3: no text that is empty after trimming and no text that matches the
\* denylist appears in the output, neither as a record's keyword nor among its
\* verwandte_suchanfragen, on the success path and on the fallback path; in
\* particular no such entry of the keywords argument appears, raw or
\* normalised.
TextErlaubt(t) == ~LeerNachTrim(t) /\ ~Verboten(t)

\* text t is a keyword or a related query of the records erg
InAusgabe(t, erg) ==
    \E n \in 1..Len(erg) :
        \/ erg[n].keyword = t
        \/ \E m \in 1..Len(erg[n].verwandte_suchanfragen) :
              erg[n].verwandte_suchanfragen[m] = t

C3_NoDeniedOrEmpty ==
    Returned =>
        LET erg == Ergebnis.ergebnisse
            liste == KeywordListe(keywords)
        IN /\ \A n \in 1..Len(erg) :
                 /\ TextErlaubt(erg[n].keyword)
                 /\ \A m \in 1..Len(erg[n].verwandte_suchanfragen) :
                       TextErlaubt(erg[n].verwandte_suchanfragen[m])
           /\ \A q \in 1..Len(liste) :
                 (liste[q].typ = "str" /\ ~TextErlaubt(liste[q].wert)) =>
                     /\ ~InAusgabe(liste[q].wert, erg)
                     /\ ~InAusgabe(normalisiere_text(liste[q].wert), erg)

\* a successful call whose argument held a denylisted and a blank entry and
\* whose provider offered a denylisted related query, with records returned
C3_Witness ==
    /\ Returned
    /\ Ergebnis.trends_verfuegbar
    /\ \E t \in StrEintraege : Verboten(t)
    /\ \E t \in StrEintraege : LeerNachTrim(t)
    /\ \E kw \in DOMAIN related.eintraege :
          \E n \in 1..Len(related.eintraege[kw].rising[1]) :
             /\ related.eintraege[kw].rising[1][n].typ = "str"
             /\ Verboten(related.eintraege[kw].rising[1][n].wert)
    /\ \E n \in 1..Len(Ergebnis.ergebnisse) :
          Ergebnis.ergebnisse[n].verwandte_suchanfragen # <<>>

\* C4: the keyword fields of ergebnisse are the cleaned, denylist-filtered
\* input in first-seen order without duplicates, on the success path and on
\* the fallback path.
GefilterteEingabe ==
    LET liste == KeywordListe(keywords)
        norm == [n \in 1..Len(liste) |-> normalisiere_keyword(liste[n])]
    IN SelectSeq(norm, LAMBDA k : ~LeerNachTrim(k) /\ ~Verboten(k))

ErstesVorkommen(src, x) ==
    CHOOSE p \in 1..Len(src) : src[p] = x /\ \A q \in 1..(p - 1) : src[q] # x

InErsterReihenfolge(r, src) ==
    LET erstes == [n \in 1..Len(r) |-> ErstesVorkommen(src, r[n])]
    IN /\ Range(r) = Range(src)
       /\ \A n \in 1..(Len(r) - 1) : erstes[n] < erstes[n + 1]

C4_FirstSeenOrder ==
    Returned =>
        InErsterReihenfolge(Keywords(Ergebnis.ergebnisse), GefilterteEingabe)

\* a successful call of two batches whose argument repeated a keyword
C4_Witness ==
    /\ Returned
    /\ Ergebnis.trends_verfuegbar
    /\ Len(abfragen) = 2
    /\ Len(GefilterteEingabe) > Len(Ergebnis.ergebnisse)

\* C5 as stated: for every max_verwandte, 0 and negative values included, no
\* record holds more than max_verwandte related queries.
C5_AtMostMax_AnyArgument ==
    Returned =>
        \A n \in 1..Len(Ergebnis.ergebnisse) :
            Len(Ergebnis.ergebnisse[n].verwandte_suchanfragen) <= max_verwandte

\* C5 amended: for every max_verwandte >= 0 no record holds more than
\* max_verwandte related queries.
C5_AtMostMax ==
    (Returned /\ max_verwandte >= 0) =>
        \A n \in 1..Len(Ergebnis.ergebnisse) :
            Len(Ergebnis.ergebnisse[n].verwandte_suchanfragen) <= max_verwandte

\* the provider offered more rising and top rows than max_verwandte and a
\* record holds exactly max_verwandte related queries, some of them from top
C5_Witness ==
    /\ Returned
    /\ Ergebnis.trends_verfuegbar
    /\ max_verwandte = 2
    /\ \E kw \in DOMAIN related.eintraege :
          /\ related.eintraege[kw].rising # None
          /\ related.eintraege[kw].top # None
          /\ Len(related.eintraege[kw].rising[1]) = 1
          /\ Len(related.eintraege[kw].top[1]) > max_verwandte
    /\ \E n \in 1..Len(Ergebnis.ergebnisse) :
          Len(Ergebnis.ergebnisse[n].verwandte_suchanfragen) = max_verwandte

\* ------------------------------------------------------------------------
\* Properties of process_request and of the agent run
\* ------------------------------------------------------------------------
TOP_N == 10

FormUngueltig ==
    \/ LeerNachTrim(thema)
    \/ alter_min = None
    \/ alter_max = None
    \/ (alter_min # None /\ alter_min[1] < 0)
    \/ (alter_max # None /\ alter_max[1] < 0)
    \/ (alter_min # None /\ alter_max # None /\ alter_min[1] > alter_max[1])

IstFehlerausgabe(o) ==
    /\ o.df = LeererFrame
    /\ o.chart = None
    /\ o.seo_titel = "" /\ o.meta = "" /\ o.hook = "" /\ o.vorspann = ""
    /\ o.status = o.zusammenfassung
    /\ Len(o.status) = 3 /\ o.status[1] = "*" /\ o.status[3] = "*"

\* C6: a request with alter_min > alter_max, a negative or missing age or a
\* blank thema makes no external call: no session is created, the runner and
\* the model are never called, and what is returned are the error outputs.
C6_RejectedBeforeExternalCall ==
    FormUngueltig =>
        /\ extern = <<>>
        /\ app_pc \in {"request", "returned"}
        /\ app_pc = "returned" =>
              outputs # None /\ IstFehlerausgabe(outputs[1])

\* a request with a thema and two ages >= 0, alter_min > alter_max, returned
C6_Witness ==
    /\ app_pc = "returned"
    /\ ~LeerNachTrim(thema)
    /\ alter_min # None /\ alter_max # None
    /\ alter_max[1] >= 0
    /\ alter_min[1] > alter_max[1]

\* C7: no failure leaves process_request as an exception; every request ends
\* with returned outputs.
C7_NoExceptionEscapes ==
    /\ app_pc # "raised"
    /\ app_ausnahme = ""

\* C8: the keyword table returned by process_request holds at most 10 rows.
C8_AtMostTenRows ==
    app_pc = "returned" => Len(outputs[1].df.zeilen) <= TOP_N

\* the six stages and their keys, in the order of the claim
ErwarteteSchreibfolge ==
    << <<"eingabe_pruefung_agent", "validierte_eingabe">>,
       <<"keyword_generierung_agent", "keyword_kandidaten">>,
       <<"trend_anreicherung_agent", "trend_daten">>,
       <<"seo_bewertung_agent", "seo_ergebnis">>,
       <<"visualisierungs_agent", "diagramm_code">>,
       <<"zusammenfassung_agent", "zusammenfassung">> >>

LaufBeendet == app_pc \in {"events", "returned"} /\ Len(geschrieben) >= 6

\* the stages run in the fixed order and every key is written once, by its
\* own stage
InFesterFolge ==
    /\ Len(geschrieben) <= 6
    /\ \A n \in 1..Len(geschrieben) : geschrieben[n] = ErwarteteSchreibfolge[n]
    /\ aktiv # None => aktiv[1] = ErwarteteSchreibfolge[Len(geschrieben) + 1][1]
    /\ \A n \in 1..6 :
          gelesen[ErwarteteSchreibfolge[n][1]] # {} => Len(geschrieben) >= n - 1
    /\ app_pc = "returned" /\ extern # <<>> => Len(geschrieben) = 6

\* C9 as stated: the stages run in the fixed linear order, every key is
\* written exactly once by exactly one stage, and every key that has a next
\* stage is consumed by that stage.
C9_ConsumedByNextStage ==
    /\ InFesterFolge
    /\ LaufBeendet =>
          \A n \in 1..5 :
             ErwarteteSchreibfolge[n][2] \in gelesen[ErwarteteSchreibfolge[n + 1][1]]

\* C9 amended: the stages run in the fixed linear order, every key is written
\* once by its own stage; validierte_eingabe, keyword_kandidaten, trend_daten
\* and seo_ergebnis are read by the stage that runs next (validierte_eingabe
\* again by the scoring stage, seo_ergebnis again by the summarize stage), a
\* stage reads no key of a later stage, and diagramm_code and zusammenfassung
\* are read by no stage.
C9_LinearOrder ==
    /\ InFesterFolge
    /\ \A n \in 1..6 : \A m \in 1..6 :
          ErwarteteSchreibfolge[m][2] \in gelesen[ErwarteteSchreibfolge[n][1]]
              => m < n /\ m <= 4
    /\ LaufBeendet =>
          /\ \A n \in 1..4 :
                ErwarteteSchreibfolge[n][2] \in gelesen[ErwarteteSchreibfolge[n + 1][1]]
          /\ "validierte_eingabe" \in gelesen["seo_bewertung_agent"]
          /\ "seo_ergebnis" \in gelesen["zusammenfassung_agent"]

\* a run that went through all six stages and returned
C9_Witness ==
    /\ app_pc = "returned"
    /\ Len(geschrieben) = 6
    /\ DOMAIN results = {ErwarteteSchreibfolge[n][2] : n \in 1..6}

\* C10: every key a stage reads through its placeholders is in the session
\* state when the stage starts; thema, artikeltext, alter_min and alter_max
\* are in the state of the session created by run_keyword_agent_async.
C10_PlaceholdersInState ==
    /\ aktiv # None => gelesen[aktiv[1]] \subseteq DOMAIN state
    /\ app_pc \in {"run_async", "events"} =>
          {"thema", "artikeltext", "alter_min", "alter_max"} \subseteq DOMAIN state

\* ------------------------------------------------------------------------
\* Properties of the batching (tools.py:98-129)
\* ------------------------------------------------------------------------
Ceil(n, d) == (n + d - 1) \div d

\* the b-th slice of five of the list cl
Scheibe(cl, b) == SubSeq(cl, 5 * (b - 1) + 1, Min(5 * b, Len(cl)))

\* the number of submitted batches that contain the keyword k
AnzahlBatches(k) ==
    Cardinality({b \in 1..Len(abfragen) :
                    \E n \in 1..Len(abfragen[b]) : abfragen[b][n] = k})

\* every call of the provider got the next slice of at most five keywords
BatchesInReihenfolge ==
    /\ Len(abfragen) <= Ceil(Len(cleaned), 5)
    /\ \A b \in 1..Len(abfragen) :
          /\ Len(abfragen[b]) <= 5
          /\ abfragen[b] = Scheibe(cleaned, b)
    /\ \A n \in 1..Len(cleaned) : AnzahlBatches(cleaned[n]) <= 1

\* an empty cleaned list: no call of the provider, the unavailable result
LeereListeOhneAbfrage ==
    (Returned /\ cleaned = <<>>) =>
        /\ abfragen = <<>>
        /\ antworten = <<>>
        /\ Ergebnis.trends_verfuegbar = FALSE
        /\ Ergebnis.ergebnisse = <<>>

\* all ceil(n/5) batches were submitted, every keyword in exactly one, and
\* the record of the keyword at position n is built from the answers to the
\* batch that holds position n
AlleBatchesAbgefragt ==
    /\ Len(abfragen) = Ceil(Len(cleaned), 5)
    /\ Len(antworten) = Len(abfragen)
    /\ \A n \in 1..Len(cleaned) : AnzahlBatches(cleaned[n]) = 1
    /\ Len(Ergebnis.ergebnisse) = Len(cleaned)
    /\ \A n \in 1..Len(cleaned) :
          LET b == Ceil(n, 5)
          IN Ergebnis.ergebnisse[n] =
                Eintrag(cleaned[n], antworten[b].iot, antworten[b].related,
                        max_verwandte)

\* C11 as stated: whenever the call returns with a non-empty cleaned list, the
\* provider was queried in exactly ceil(n/5) batches of at most 5 keywords in
\* list order, every surviving keyword was submitted in exactly one batch and
\* its record is built from the answers to that batch; with an empty cleaned
\* list the provider was never called and the result is unavailable and empty.
C11_ExactlyCeilBatches ==
    /\ BatchesInReihenfolge
    /\ LeereListeOhneAbfrage
    /\ (Returned /\ cleaned # <<>>) => AlleBatchesAbgefragt

\* C11 amended: the batches are always the next slices of at most 5 keywords
\* in list order and no keyword is submitted twice; when no call throws
\* (trends_verfuegbar = TRUE) there are exactly ceil(n/5) batches, every
\* keyword is in exactly one and its record is built from the answers to its
\* own batch; when a call throws, only the batches up to the failing one were
\* submitted; with an empty cleaned list the provider is never called and the
\* result is unavailable and empty.
C11_BatchesOnSuccess ==
    /\ BatchesInReihenfolge
    /\ LeereListeOhneAbfrage
    /\ (Returned /\ cleaned # <<>> /\ Ergebnis.trends_verfuegbar) =>
          AlleBatchesAbgefragt
    /\ (Returned /\ gefangen # None) =>
          /\ Len(antworten) < Ceil(Len(cleaned), 5)
          /\ Len(antworten) <= Len(abfragen)
          /\ Len(abfragen) <= Len(antworten) + 1

\* a successful call with a full first batch and a shorter second batch whose
\* answers differ from those of the first
C11_Witness ==
    /\ Returned
    /\ Ergebnis.trends_verfuegbar
    /\ Len(abfragen) = 2
    /\ Len(abfragen[1]) = 5
    /\ Len(abfragen[2]) < 5
    /\ antworten[1].iot.spalten # <<>>
    /\ antworten[2].iot.spalten = <<>>
    /\ antworten[1].related.eintraege = <<>>
    /\ antworten[2].related.eintraege # <<>>

\* ------------------------------------------------------------------------
\* Properties of verwandte_suchanfragen (tools.py:140-157)
\* ------------------------------------------------------------------------
\* the rows of a frame of related queries, none for a missing frame
Zeilen(df) == IF df = None THEN <<>> ELSE df[1]

\* the rising and top frames the provider returned for the n-th keyword
RelatedFuer(n) ==
    LET rel == antworten[Ceil(n, 5)].related
    IN IF ~rel.kaputt /\ cleaned[n] \in DOMAIN rel.eintraege
       THEN rel.eintraege[cleaned[n]]
       ELSE [top |-> None, rising |-> None]

\* the rows that are strings, normalised, without blank and denylisted ones
GefilterteZeilen(rows) ==
    LET strs == SelectSeq(rows, LAMBDA x : x.typ = "str")
        norm == [n \in 1..Len(strs) |-> normalisiere_text(strs[n].wert)]
    IN SelectSeq(norm, LAMBDA x : TextErlaubt(x))

KeinDuplikat(l) == \A a \in 1..Len(l) : \A b \in 1..Len(l) : l[a] = l[b] => a = b

\* final is made of the first r rising rows followed by the first t top rows
AusRisingDannTop(final, R, T, r, t) ==
    LET ausRising == GefilterteZeilen(SubSeq(R, 1, r))
        ausTop == GefilterteZeilen(SubSeq(T, 1, t))
    IN /\ InErsterReihenfolge(final, ausRising \o ausTop)
       /\ \E j \in 0..Len(final) :
             /\ \A a \in 1..j : final[a] \in Range(ausRising)
             /\ \A a \in (j + 1)..Len(final) :
                   final[a] \in Range(ausTop) /\ final[a] \notin Range(ausRising)
             /\ InErsterReihenfolge(SubSeq(final, 1, j), ausRising)

\* C12: verwandte_suchanfragen takes up to max_verwandte rows, rising rows
\* first and the remainder from the top rows, then normalises, filters and
\* deduplicates them: the kept rising entries precede the top entries, each in
\* provider order, a top row is used only when fewer than max_verwandte rising
\* rows were taken, and the list has no duplicate. (The number of rows taken is
\* stated for max_verwandte >= 0.)
C12_RisingThenTop ==
    (Returned /\ Ergebnis.trends_verfuegbar) =>
        \A n \in 1..Len(Ergebnis.ergebnisse) :
            LET final == Ergebnis.ergebnisse[n].verwandte_suchanfragen
                R == Zeilen(RelatedFuer(n).rising)
                T == Zeilen(RelatedFuer(n).top)
            IN /\ KeinDuplikat(final)
               /\ \E r \in 0..Len(R) : \E t \in 0..Len(T) :
                     /\ max_verwandte >= 0 =>
                           /\ r = Min(max_verwandte, Len(R))
                           /\ t = Min(max_verwandte - r, Len(T))
                     /\ t > 0 => r < max_verwandte
                     /\ AusRisingDannTop(final, R, T, r, t)

\* a record whose list holds the one rising entry followed by the first top
\* entry, where the provider offered more top rows than were needed
C12_Witness ==
    /\ Returned
    /\ Ergebnis.trends_verfuegbar
    /\ max_verwandte = 2
    /\ \E n \in 1..Len(Ergebnis.ergebnisse) :
          LET final == Ergebnis.ergebnisse[n].verwandte_suchanfragen
              R == Zeilen(RelatedFuer(n).rising)
              T == Zeilen(RelatedFuer(n).top)
          IN /\ Len(R) = 1 /\ Len(T) >= 2
             /\ Len(final) = 2
             /\ final[1] = normalisiere_text(R[1].wert)
             /\ final[2] = normalisiere_text(T[1].wert)
             /\ T[2] # T[1]

\* ------------------------------------------------------------------------
\* Properties of trend_index and suchvolumen (tools.py:129-166)
\* ------------------------------------------------------------------------
\* the non-null values the provider returned for the n-th keyword: none when
\* the frame has no column for it or its columns cannot be read
NichtNullWerte(n) ==
    LET frame == antworten[Ceil(n, 5)].iot
    IN IF ~frame.kaputt /\ cleaned[n] \in DOMAIN frame.spalten
       THEN LET spalte == frame.spalten[cleaned[n]]
                da == SelectSeq(spalte, LAMBDA v : v # None)
            IN [m \in 1..Len(da) |-> da[m][1]]
       ELSE <<>>

RECURSIVE Summe(_)
Summe(w) == IF w = <<>> THEN 0 ELSE Head(w) + Summe(Tail(w))

Betrag(x) == IF x >= 0 THEN x ELSE 0 - x

\* idx is an integer nearest to sum / cnt: |idx - sum / cnt| <= 1/2
NaechsteGanzzahl(idx, sum, cnt) == 2 * Betrag(idx * cnt - sum) <= cnt

\* C13: on the success path trend_index is None exactly when the provider
\* returned no series for the keyword, a series without a non-null value, or a
\* frame that cannot be read; otherwise it is the mean of the non-null values
\* rounded to a nearest integer, and it lies in 0..100 when all values do.
\* suchvolumen is None in every record, on the fallback path too.
C13_TrendIndexIsRoundedMean ==
    Returned =>
        /\ \A n \in 1..Len(Ergebnis.ergebnisse) :
              Ergebnis.ergebnisse[n].suchvolumen = None
        /\ Ergebnis.trends_verfuegbar =>
              \A n \in 1..Len(Ergebnis.ergebnisse) :
                 LET w == NichtNullWerte(n)
                     ti == Ergebnis.ergebnisse[n].trend_index
                 IN /\ (ti = None) <=> (w = <<>>)
                    /\ w # <<>> =>
                          /\ NaechsteGanzzahl(ti[1], Summe(w), Len(w))
                          /\ (\A m \in 1..Len(w) : w[m] \in 0..100)
                                => ti[1] \in 0..100

\* a successful call whose series held a NaN beside the values 1 and 2: the
\* mean 1.5 of the two non-null values gives the trend_index 2
C13_Witness ==
    /\ Returned
    /\ Ergebnis.trends_verfuegbar
    /\ \E n \in 1..Len(Ergebnis.ergebnisse) :
          /\ Ergebnis.ergebnisse[n].trend_index = Some(2)
          /\ Len(NichtNullWerte(n)) = 2
          /\ Summe(NichtNullWerte(n)) = 3
          /\ Len(antworten[1].iot.spalten[cleaned[n]]) = 3

====
